---- MODULE Spec2Model ----
(***************************************************************************)
(* Model of src/app.py: the Streamlit script that loads sucide_case.csv,   *)
(* renders the toggled previews, cleans the table with clean_dataset and   *)
(* offers the cleaned table for download.                                  *)
(*                                                                         *)
(* Strings whose characters the code inspects (column names, cell texts)   *)
(* are sequences of one-character strings.  DataFrames live in a heap of   *)
(* objects and the script's names (df, df_raw, df_clean) hold references,  *)
(* so that copying and in-place mutation are distinguishable.              *)
(***************************************************************************)
EXTENDS Integers, Sequences, FiniteSets, TLC

VARIABLES file, heap, df, df_raw, df_clean, session_state, button,
          emitted, error, pc, steps_done

vars == <<file, heap, df, df_raw, df_clean, session_state, button,
          emitted, error, pc, steps_done>>

(* ------------------------------ bounds -------------------------------- *)

\* most columns in the backing file
MaxCols == 5

\* most data rows in the backing file
MaxRows == 2

(* ---------------------------- characters ------------------------------ *)

UpperChars == <<"A","B","C","D","E","F","G","H","I","J","K","L","M",
                "N","O","P","Q","R","S","T","U","V","W","X","Y","Z">>

LowerChars == <<"a","b","c","d","e","f","g","h","i","j","k","l","m",
                "n","o","p","q","r","s","t","u","v","w","x","y","z">>

Digits == <<"0","1","2","3","4","5","6","7","8","9">>

IsUpper(c) == \E i \in 1..Len(UpperChars) : UpperChars[i] = c

IsDigit(c) == \E i \in 1..Len(Digits) : Digits[i] = c

DigitVal(c) == (CHOOSE i \in 1..Len(Digits) : Digits[i] = c) - 1

\* str.lower() on one character
Lower(c) ==
    IF IsUpper(c)
    THEN LowerChars[CHOOSE i \in 1..Len(UpperChars) : UpperChars[i] = c]
    ELSE c

\* Index.str.lower()
str_lower(s) == [i \in 1..Len(s) |-> Lower(s[i])]

\* str.replace(old, new) for a one-character literal pattern old
RECURSIVE str_replace(_, _, _)
str_replace(s, old, new) ==
    IF s = <<>> THEN <<>>
    ELSE (IF Head(s) = old THEN new ELSE <<Head(s)>>)
         \o str_replace(Tail(s), old, new)

\* faulty variant: the lowercasing call left out of the chain
NormalizeNameNoLower(name) ==
    str_replace(str_replace(str_replace(name, " ", <<"_">>), "(", <<>>), ")", <<>>)

\* .str.lower().str.replace(' ', '_').str.replace('(', '').str.replace(')', '')
NormalizeName(name) ==
    str_replace(str_replace(str_replace(str_lower(name), " ", <<"_">>),
                            "(", <<>>), ")", <<>>)

(* --------------------- column names the code names -------------------- *)

suicides_no == <<"s","u","i","c","i","d","e","s","_","n","o">>

gdp_per_capita_D == <<"g","d","p","_","p","e","r","_","c","a","p","i","t","a","_","$">>

gdp_for_year_D == <<"g","d","p","_","f","o","r","_","y","e","a","r","_","$">>

hdi_for_year == <<"h","d","i","_","f","o","r","_","y","e","a","r">>

gdp_per_capita == <<"g","d","p","_","p","e","r","_","c","a","p","i","t","a">>

(* ------------------------------- cells -------------------------------- *)

\* the missing marker (NaN)
NaN == [t |-> "nan", v |-> 0, s |-> <<>>]

Num(n) == [t |-> "num", v |-> n, s |-> <<>>]

Str(s) == [t |-> "str", v |-> 0, s |-> s]

RECURSIVE DigitsValue(_, _)
DigitsValue(s, acc) ==
    IF s = <<>> THEN acc
    ELSE DigitsValue(Tail(s), acc * Len(Digits) + DigitVal(Head(s)))

RECURSIVE DigitsOf(_)
DigitsOf(n) ==
    IF n < Len(Digits) THEN <<Digits[n + 1]>>
    ELSE Append(DigitsOf(n \div Len(Digits)), Digits[(n % Len(Digits)) + 1])

\* a text parses as a number when it is a non-empty run of digits
Parses(s) == s # <<>> /\ \A i \in 1..Len(s) : IsDigit(s[i])

\* faulty variant: errors='ignore' keeps the cell that does not parse
to_numeric_ignore(c) ==
    IF c.t = "str"
    THEN (IF Parses(c.s) THEN Num(DigitsValue(c.s, 0)) ELSE c)
    ELSE c

\* pd.to_numeric(..., errors='coerce') on one cell
to_numeric(c) ==
    IF c.t = "str"
    THEN (IF Parses(c.s) THEN Num(DigitsValue(c.s, 0)) ELSE NaN)
    ELSE c

\* .astype(str) on one cell
astype_str(c) ==
    IF c.t = "num" THEN Str(DigitsOf(c.v))
    ELSE IF c.t = "nan" THEN Str(<<"n","a","n">>)
    ELSE c

\* faulty variant: only the thousands separator is stripped
strip_commas_only(c) == Str(str_replace(c.s, ",", <<>>))

\* .str.replace(r'[\$,]', '', regex=True) on one cell
strip_currency(c) == Str(str_replace(str_replace(c.s, "$", <<>>), ",", <<>>))

(* ------------------------------ tables -------------------------------- *)

\* a DataFrame: column labels, one cell sequence per column, row labels
Table(cols, data, index) == [columns |-> cols, data |-> data, index |-> index]

EmptyTable == Table(<<>>, <<>>, <<>>)

\* positions of the columns labelled name
Positions(t, name) == {i \in 1..Len(t.columns) : t.columns[i] = name}

RECURSIVE KeepAt(_, _, _)
KeepAt(seq, keep, i) ==
    IF i > Len(seq) THEN <<>>
    ELSE (IF i \in keep THEN <<seq[i]>> ELSE <<>>) \o KeepAt(seq, keep, i + 1)

(* --------------------------- the backing file ------------------------- *)

\* the header of the backing file, in schema order (column_info, lines
\* 15-27), with the HDI column the cleaner drops and a pair of labels that
\* differ only in case
RawHeader == <<
    <<"S","e","x">>,
    <<"s","e","x">>,
    suicides_no,
    <<"g","d","p","_","f","o","r","_","y","e","a","r"," ","(","$",")">>,
    <<"g","d","p","_","p","e","r","_","c","a","p","i","t","a"," ","(","$",")">>,
    <<"H","D","I"," ","f","o","r"," ","y","e","a","r">> >>

CellPool == << Num(21), Str(<<"$","1",",","2">>), Str(<<"1","2">>),
               Str(<<"a","b">>), NaN >>

Reverse(seq) == [i \in 1..Len(seq) |-> seq[Len(seq) + 1 - i]]

\* read_csv gives distinct labels and rejects a file without a header: a
\* header is a selection of one to MaxCols labels of RawHeader, in schema
\* order or in the reverse order
ColLists ==
    LET picks == { KeepAt(RawHeader, keep, 1) :
                     keep \in { k \in SUBSET (1..Len(RawHeader)) :
                                  k # {} /\ Cardinality(k) <= MaxCols } }
    IN  picks \cup { Reverse(c) : c \in picks }

CellAt(seed, r, c) == CellPool[((seed + r + c) % Len(CellPool)) + 1]

MakeTable(cols, n, seed) ==
    Table(cols,
          [c \in 1..Len(cols) |-> [r \in 1..n |-> CellAt(seed, r, c)]],
          [r \in 1..n |-> r - 1])

Tables ==
    { MakeTable(cols, n, seed) :
        cols \in ColLists, n \in 0..MaxRows, seed \in 0..(Len(CellPool) - 1) }

NoFile == [exists |-> FALSE, table |-> EmptyTable]

Files == {NoFile} \cup { [exists |-> TRUE, table |-> t] : t \in Tables }

(* --------------------------- clean_dataset ---------------------------- *)

\* The function's frame: the heap, the object its local df names, and the
\* exception that ended it ("none" while it runs).
Frame(h, ref, e) == [heap |-> h, df |-> ref, err |-> e]

Raise(s, e) == [s EXCEPT !.err = e]

SetTable(s, t) == [s EXCEPT !.heap[s.df] = t]

\* faulty variant: df = df binds the argument itself
df_alias(h, ref) == Frame(h, ref, "none")

\* df = df.copy(): a new object with the argument's labels and cells
df_copy(h, ref) == Frame(Append(h, h[ref]), Len(h) + 1, "none")

\* df.columns = df.columns.str.lower()...: relabels df in place
SetColumns(s) ==
    LET t == s.heap[s.df] IN
    SetTable(s, [t EXCEPT !.columns =
                    [i \in 1..Len(t.columns) |-> NormalizeName(t.columns[i])]])

ColumnToNumeric(col) == [r \in 1..Len(col) |-> to_numeric(col[r])]

\* faulty variant: rows whose cell failed to parse are dropped (dropna)
CoerceColumnDropna(s, name) ==
    IF s.err # "none" THEN s
    ELSE LET t == s.heap[s.df]
             pos == Positions(t, name) IN
         IF pos = {} THEN Raise(s, "KeyError")
         ELSE IF Cardinality(pos) > 1 THEN Raise(s, "TypeError")
         ELSE LET i == CHOOSE j \in pos : TRUE
                  col == ColumnToNumeric(t.data[i])
                  keep == {r \in 1..Len(col) : col[r] # NaN} IN
              SetTable(s, Table(t.columns,
                    [c \in 1..Len(t.data) |->
                        KeepAt(IF c = i THEN col ELSE t.data[c], keep, 1)],
                    KeepAt(t.index, keep, 1)))

\* faulty variant: an absent column is skipped instead of raising
CoerceColumnGuarded(s, name) ==
    IF s.err # "none" THEN s
    ELSE LET t == s.heap[s.df]
             pos == Positions(t, name) IN
         IF pos = {} THEN s
         ELSE IF Cardinality(pos) > 1 THEN Raise(s, "TypeError")
         ELSE LET i == CHOOSE j \in pos : TRUE IN
              SetTable(s, [t EXCEPT !.data[i] = ColumnToNumeric(@)])

\* df[name] = pd.to_numeric(df[name], errors='coerce')
\* df[name] raises KeyError for an absent label; for a repeated label it is a
\* DataFrame, which to_numeric rejects with TypeError.
CoerceColumn(s, name) ==
    IF s.err # "none" THEN s
    ELSE LET t == s.heap[s.df]
             pos == Positions(t, name) IN
         IF pos = {} THEN Raise(s, "KeyError")
         ELSE IF Cardinality(pos) > 1 THEN Raise(s, "TypeError")
         ELSE LET i == CHOOSE j \in pos : TRUE IN
              SetTable(s, [t EXCEPT !.data[i] = ColumnToNumeric(@)])

CoerceSuicidesNo(s) == CoerceColumn(s, suicides_no)

CoerceGdpPerCapita(s) == CoerceColumn(s, gdp_per_capita_D)

\* faulty variant: every column is coerced, not only the two named ones
ConvertTypesAll(s) ==
    LET c == CoerceGdpPerCapita(CoerceSuicidesNo(s)) IN
    IF c.err # "none" THEN c
    ELSE LET t == c.heap[c.df] IN
         SetTable(c, [t EXCEPT !.data =
                        [i \in 1..Len(t.data) |-> ColumnToNumeric(t.data[i])]])

\* "Convert types": the two to_numeric assignments
ConvertTypes(s) == CoerceGdpPerCapita(CoerceSuicidesNo(s))

\* faulty variant: the stripped text is read from the GDP-per-capita column
CleanGdpForYearFromCapita(s) ==
    IF s.err # "none" THEN s
    ELSE LET t == s.heap[s.df]
             pos == Positions(t, gdp_for_year_D)
             src == Positions(t, gdp_per_capita_D) IN
         IF pos = {} THEN s
         ELSE IF src = {} THEN Raise(s, "KeyError")
         ELSE IF Cardinality(pos) > 1 \/ Cardinality(src) > 1
              THEN Raise(s, "AttributeError")
         ELSE LET i == CHOOSE j \in pos : TRUE
                  k == CHOOSE j \in src : TRUE IN
              SetTable(s, [t EXCEPT !.data[i] =
                  [r \in 1..Len(t.data[k]) |->
                      to_numeric(strip_currency(astype_str(t.data[k][r])))]])

\* "Clean GDP for year column": guarded by the label's presence; a repeated
\* label makes df[...] a DataFrame, which has no .str (AttributeError).
CleanGdpForYear(s) ==
    IF s.err # "none" THEN s
    ELSE LET t == s.heap[s.df]
             pos == Positions(t, gdp_for_year_D) IN
         IF pos = {} THEN s
         ELSE IF Cardinality(pos) > 1 THEN Raise(s, "AttributeError")
         ELSE LET i == CHOOSE j \in pos : TRUE IN
              SetTable(s, [t EXCEPT !.data[i] =
                  [r \in 1..Len(@) |->
                      to_numeric(strip_currency(astype_str(@[r])))]])

\* faulty variant: the drop is not in place and its result is discarded
DropHdiDiscarded(s) == s

\* df.drop(columns=["hdi_for_year"], errors='ignore', inplace=True)
DropHdi(s) ==
    IF s.err # "none" THEN s
    ELSE LET t == s.heap[s.df]
             keep == (1..Len(t.columns)) \ Positions(t, hdi_for_year) IN
         SetTable(s, Table(KeepAt(t.columns, keep, 1),
                           KeepAt(t.data, keep, 1), t.index))

\* df.rename(columns={'gdp_per_capita_$': 'gdp_per_capita'}, inplace=True)
RenameGdpPerCapita(s) ==
    IF s.err # "none" THEN s
    ELSE LET t == s.heap[s.df] IN
         SetTable(s, [t EXCEPT !.columns =
             [i \in 1..Len(t.columns) |->
                 IF t.columns[i] = gdp_per_capita_D THEN gdp_per_capita
                 ELSE t.columns[i]]])

\* clean_dataset(df): the frame at return or at the raise
clean_dataset(h, ref) ==
    RenameGdpPerCapita(DropHdi(CleanGdpForYear(ConvertTypes(
        SetColumns(df_copy(h, ref))))))

(* ----------------------------- the script ----------------------------- *)

\* what a run can put on the page
Outputs == {"full_dataset", "column_table", "issue_table",
            "raw_head", "clean_head", "download"}

Buttons == {"none", "show_dataset", "show_columns"}

Has(key) == key \in DOMAIN session_state

\* a new browser session starts its first run
Init ==
    /\ file \in Files
    /\ heap = <<>>
    /\ df = 0 /\ df_raw = 0 /\ df_clean = 0
    /\ session_state = [k \in {} |-> FALSE]
    /\ button = "none"
    /\ emitted = {}
    /\ error = "none"
    /\ pc = "L12"
    /\ steps_done = {}

\* load_data(): pd.read_csv yields a fresh table, or raises when the file
\* is missing (st.cache_data hands every caller its own copy).
load_data(h) ==
    IF file.exists
    THEN Frame(Append(h, file.table), Len(h) + 1, "none")
    ELSE Frame(h, 0, "FileNotFoundError")

\* line 12: df = load_data()
Load ==
    /\ pc = "L12"
    /\ LET r == load_data(heap) IN
       IF r.err = "none"
       THEN /\ heap' = r.heap /\ df' = r.df /\ pc' = "L34"
            /\ UNCHANGED error
       ELSE /\ error' = r.err /\ pc' = "aborted"
            /\ UNCHANGED <<heap, df>>
    /\ UNCHANGED <<file, df_raw, df_clean, session_state, button, emitted,
                   steps_done>>

\* lines 34-47: default the two flags, then the sidebar buttons set them
Sidebar ==
    /\ pc = "L34"
    /\ session_state' =
         [k \in {"show_dataset", "show_columns"} |->
             IF button = k THEN TRUE
             ELSE IF Has(k) THEN session_state[k] ELSE FALSE]
    /\ button' = "none"
    /\ pc' = "L62"
    /\ UNCHANGED <<file, heap, df, df_raw, df_clean, emitted, error,
                   steps_done>>

\* lines 62-67: the toggled previews
ShowToggled ==
    /\ pc = "L62"
    /\ emitted' = emitted
         \cup (IF session_state["show_dataset"] THEN {"full_dataset"} ELSE {})
         \cup (IF session_state["show_columns"] THEN {"column_table"} ELSE {})
    /\ pc' = "L90"
    /\ UNCHANGED <<file, heap, df, df_raw, df_clean, session_state, button,
                   error, steps_done>>

\* lines 70-90: the static issue table
ShowIssues ==
    /\ pc = "L90"
    /\ emitted' = emitted \cup {"issue_table"}
    /\ pc' = "L123"
    /\ UNCHANGED <<file, heap, df, df_raw, df_clean, session_state, button,
                   error, steps_done>>

\* line 123: df_raw = load_data()
LoadRaw ==
    /\ pc = "L123"
    /\ LET r == load_data(heap) IN
       IF r.err = "none"
       THEN /\ heap' = r.heap /\ df_raw' = r.df /\ pc' = "L124"
            /\ UNCHANGED error
       ELSE /\ error' = r.err /\ pc' = "aborted"
            /\ UNCHANGED <<heap, df_raw>>
    /\ UNCHANGED <<file, df, df_clean, session_state, button, emitted,
                   steps_done>>

\* line 124: df_clean = clean_dataset(df_raw)
Clean ==
    /\ pc = "L124"
    /\ LET r == clean_dataset(heap, df_raw) IN
       /\ heap' = r.heap
       /\ IF r.err = "none"
          THEN /\ df_clean' = r.df /\ pc' = "L128"
               /\ UNCHANGED error
          ELSE /\ error' = r.err /\ pc' = "aborted"
               /\ UNCHANGED df_clean
    /\ UNCHANGED <<file, df, df_raw, session_state, button, emitted,
                   steps_done>>

\* lines 127-128: st.dataframe(df_raw.head(10))
ShowRaw ==
    /\ pc = "L128"
    /\ emitted' = emitted \cup {"raw_head"}
    /\ pc' = "L146"
    /\ UNCHANGED <<file, heap, df, df_raw, df_clean, session_state, button,
                   error, steps_done>>

\* lines 145-146: st.dataframe(df_clean.head(10))
ShowClean ==
    /\ pc = "L146"
    /\ emitted' = emitted \cup {"clean_head"}
    /\ pc' = "L150"
    /\ UNCHANGED <<file, heap, df, df_raw, df_clean, session_state, button,
                   error, steps_done>>

\* lines 149-156: the download button over df_clean.to_csv
Export ==
    /\ pc = "L150"
    /\ emitted' = emitted \cup {"download"}
    /\ pc' = "done"
    /\ UNCHANGED <<file, heap, df, df_raw, df_clean, session_state, button,
                   error, steps_done>>

\* Streamlit reruns the script from the top on a widget event; the session
\* state survives, the page and the script's names do not.
Rerun ==
    /\ pc \in {"done", "aborted"}
    /\ \E b \in Buttons :
         \* a button can be pressed only if the last run drew the sidebar
         /\ (b # "none" => Has("show_dataset"))
         /\ button' = b
    /\ heap' = <<>>
    /\ df' = 0 /\ df_raw' = 0 /\ df_clean' = 0
    /\ emitted' = {}
    /\ error' = "none"
    /\ pc' = "L12"
    /\ UNCHANGED <<file, session_state, steps_done>>

Next ==
    \/ Load \/ Sidebar \/ ShowToggled \/ ShowIssues \/ LoadRaw \/ Clean
    \/ ShowRaw \/ ShowClean \/ Export \/ Rerun

Spec == Init /\ [][Next]_vars

(* ------------------- the cleaning steps in any order ------------------ *)

\* The steps between the relabelling and the final rename, taken one at a
\* time in every order; df is clean_dataset's local, relabelled copy.
Steps == {"suicides_no", "gdp_per_capita", "gdp_for_year", "drop_hdi"}

InitOrder ==
    /\ file \in Files
    /\ file.exists
    /\ LET s == SetColumns(df_copy(<<file.table>>, 1)) IN
       heap = s.heap /\ df = s.df
    /\ df_raw = 1 /\ df_clean = 0
    /\ session_state = [k \in {} |-> FALSE]
    /\ button = "none"
    /\ emitted = {}
    /\ error = "none"
    /\ pc = "steps"
    /\ steps_done = {}

\* one step on the frame; a raise ends the function
Apply(step, r) ==
    /\ pc = "steps"
    /\ step \notin steps_done
    /\ steps_done' = steps_done \cup {step}
    /\ heap' = r.heap
    /\ IF r.err = "none"
       THEN UNCHANGED <<error, pc>>
       ELSE error' = r.err /\ pc' = "aborted"
    /\ UNCHANGED <<file, df, df_raw, df_clean, session_state, button, emitted>>

StepSuicidesNo == Apply("suicides_no", CoerceSuicidesNo(Frame(heap, df, "none")))

StepGdpPerCapita == Apply("gdp_per_capita", CoerceGdpPerCapita(Frame(heap, df, "none")))

StepGdpForYear == Apply("gdp_for_year", CleanGdpForYear(Frame(heap, df, "none")))

StepDropHdi == Apply("drop_hdi", DropHdi(Frame(heap, df, "none")))

\* the rename comes last, then return df
StepRename ==
    /\ pc = "steps"
    /\ steps_done = Steps
    /\ heap' = RenameGdpPerCapita(Frame(heap, df, "none")).heap
    /\ df_clean' = df
    /\ pc' = "done"
    /\ UNCHANGED <<file, df, df_raw, session_state, button, emitted, error,
                   steps_done>>

NextOrder ==
    \/ StepSuicidesNo \/ StepGdpPerCapita \/ StepGdpForYear \/ StepDropHdi
    \/ StepRename

SpecOrder == InitOrder /\ [][NextOrder]_vars

(* ------------------------------ properties ---------------------------- *)

\* clean_dataset has returned in this run
Cleaned == pc \in {"L128", "L146", "L150", "done"}

\* clean_dataset was called in this run and raised
CleanRaised == pc = "aborted" /\ df_raw # 0

RawT == heap[df_raw]

CleanT == heap[df_clean]

NormCols(t) == [i \in 1..Len(t.columns) |-> NormalizeName(t.columns[i])]

\* positions of the raw columns whose normalized label is name
RawPos(name) ==
    {i \in 1..Len(RawT.columns) : NormalizeName(RawT.columns[i]) = name}

NRows(t) == Len(t.index)

BadNameChar(c) == c \in {" ", "(", ")"} \/ IsUpper(c)

\* C1: every column name of the clean table is free of spaces, of '(' and
\* ')' and of uppercase letters.
Thm_C1_CleanNames ==
    Cleaned =>
        \A i \in 1..Len(CleanT.columns) :
            \A j \in 1..Len(CleanT.columns[i]) :
                ~BadNameChar(CleanT.columns[i][j])

Wit_C1_CleanNames ==
    /\ Cleaned
    /\ \E i \in 1..Len(RawT.columns) :
         \E j, k \in 1..Len(RawT.columns[i]) :
            IsUpper(RawT.columns[i][j]) /\ RawT.columns[i][k] = " "
    /\ \E i \in 1..Len(RawT.columns) :
         \E j \in 1..Len(RawT.columns[i]) : RawT.columns[i][j] = "("

Thm_C3_RawUntouched ==
    df_raw # 0 => RawT = file.table

Wit_C3_RawUntouched ==
    /\ Cleaned
    /\ CleanT.columns # RawT.columns
    /\ \E c \in Positions(CleanT, suicides_no) :
         \E i \in RawPos(suicides_no) : CleanT.data[c] # RawT.data[i]

NoCollision(t) ==
    LET n == NormCols(t) IN
    \A i, j \in 1..Len(n) : n[i] = n[j] => i = j

NotHdi(name) == name # hdi_for_year

ExpectedColumns(t) ==
    LET kept == SelectSeq(NormCols(t), NotHdi) IN
    [i \in 1..Len(kept) |->
        IF kept[i] = gdp_per_capita_D THEN gdp_per_capita ELSE kept[i]]

InSeq(x, seq) == \E i \in 1..Len(seq) : seq[i] = x

\* C4: without label collisions, the clean columns are the normalized raw
\* labels in raw order, less hdi_for_year, with gdp_per_capita_$ renamed to
\* gdp_per_capita.
Thm_C4_ColumnList ==
    (Cleaned /\ NoCollision(RawT)) =>
        /\ CleanT.columns = ExpectedColumns(RawT)
        /\ ~InSeq(hdi_for_year, CleanT.columns)
        /\ ~InSeq(gdp_per_capita_D, CleanT.columns)
        /\ InSeq(gdp_per_capita, CleanT.columns)

Wit_C4_ColumnList ==
    /\ Cleaned
    /\ NoCollision(RawT)
    /\ RawPos(hdi_for_year) # {}
    /\ \E i \in RawPos(hdi_for_year) : i < Len(RawT.columns)

\* the number a raw cell stands for, or the missing marker
ExpectedNumeric(c) ==
    IF c.t = "num" THEN c
    ELSE IF c.t = "str" /\ Parses(c.s) THEN Num(DigitsValue(c.s, 0))
    ELSE NaN

\* the columns the coercions and the drop can raise on are each present once
CoercibleSchema ==
    /\ Cardinality(RawPos(suicides_no)) = 1
    /\ Cardinality(RawPos(gdp_per_capita_D)) = 1
    /\ Cardinality(RawPos(gdp_for_year_D)) <= 1

\* C5: each cell of suicides_no and of the GDP-per-capita column becomes
\* its number when it parses and the missing marker when it does not, and
\* no cell content makes clean_dataset raise.
Thm_C5_NumericCoercion ==
    /\ Cleaned =>
         /\ \A i \in RawPos(suicides_no) : \A c \in Positions(CleanT, suicides_no) :
              \A r \in 1..NRows(RawT) :
                 CleanT.data[c][r] = ExpectedNumeric(RawT.data[i][r])
         /\ \A i \in RawPos(gdp_per_capita_D) :
              \A c \in Positions(CleanT, gdp_per_capita) :
                \A r \in 1..NRows(RawT) :
                   CleanT.data[c][r] = ExpectedNumeric(RawT.data[i][r])
    /\ ~(CleanRaised /\ CoercibleSchema)

Wit_C5_NumericCoercion ==
    /\ Cleaned
    /\ NRows(RawT) >= 2
    /\ \E i \in RawPos(suicides_no) : \E c \in Positions(CleanT, suicides_no) :
         /\ RawT.data[i][1] = Str(<<"1","2">>) /\ CleanT.data[c][1] = Num(12)
         /\ RawT.data[i][2] = Str(<<"a","b">>) /\ CleanT.data[c][2] = NaN

NotCurrencyChar(c) == c # "$" /\ c # ","

\* the text of a raw cell
CellText(c) ==
    IF c.t = "num" THEN DigitsOf(c.v)
    ELSE IF c.t = "nan" THEN <<"n","a","n">>
    ELSE c.s

ExpectedCurrency(c) ==
    LET rest == SelectSeq(CellText(c), NotCurrencyChar) IN
    IF Parses(rest) THEN Num(DigitsValue(rest, 0)) ELSE NaN

\* C6: each cell of the GDP-per-year column becomes the number left after
\* deleting every '$' and ',' from its text, or the missing marker; no '$'
\* or ',' remains in the column.
Thm_C6_CurrencyCoercion ==
    Cleaned =>
        \A i \in RawPos(gdp_for_year_D) : \A c \in Positions(CleanT, gdp_for_year_D) :
            \A r \in 1..NRows(RawT) :
                /\ CleanT.data[c][r] = ExpectedCurrency(RawT.data[i][r])
                /\ CleanT.data[c][r].t \in {"num", "nan"}

Wit_C6_CurrencyCoercion ==
    /\ Cleaned
    /\ NRows(RawT) >= 1
    /\ \E i \in RawPos(gdp_for_year_D) : \E c \in Positions(CleanT, gdp_for_year_D) :
         /\ RawT.data[i][1] = Str(<<"$","1",",","2">>)
         /\ CleanT.data[c][1] = Num(12)

\* clean_dataset was called in this run
CleanCalled == Cleaned \/ CleanRaised

\* C7 as stated: if any of suicides_no, gdp_for_year_$ and gdp_per_capita_$
\* is absent after normalization, clean_dataset fails and returns no table.
Cex_C7_AnyAbsentFatal ==
    (CleanCalled /\ (\/ RawPos(suicides_no) = {}
                     \/ RawPos(gdp_for_year_D) = {}
                     \/ RawPos(gdp_per_capita_D) = {}))
        => (CleanRaised /\ error = "KeyError" /\ df_clean = 0)

\* C7 as amended: the absence of suicides_no or of gdp_per_capita_$ is fatal
\* (KeyError, no clean table); the absence of gdp_for_year_$ alone is not:
\* the step is skipped and the clean table is returned without that column.
Thm_C7_RequiredAbsentFatal ==
    /\ (CleanCalled /\ (RawPos(suicides_no) = {} \/ RawPos(gdp_per_capita_D) = {}))
         => (CleanRaised /\ error = "KeyError" /\ df_clean = 0)
    /\ (CleanCalled /\ RawPos(gdp_for_year_D) = {}
          /\ Cardinality(RawPos(suicides_no)) = 1
          /\ Cardinality(RawPos(gdp_per_capita_D)) = 1)
         => (Cleaned /\ Positions(CleanT, gdp_for_year_D) = {})

Wit_C7_RequiredAbsentFatal ==
    /\ CleanRaised
    /\ error = "KeyError"
    /\ RawPos(suicides_no) # {}
    /\ RawPos(gdp_for_year_D) # {}
    /\ RawPos(gdp_per_capita_D) = {}

\* the outputs that show a dataset, whole or in part
TableOutputs == {"full_dataset", "raw_head", "clean_head", "download"}

\* C8: a run that ended in a fatal condition has shown no dataset preview
\* and no download artifact.
Cex_C8_NoTableOnAbort ==
    pc = "aborted" => emitted \cap TableOutputs = {}

Touched == {suicides_no, gdp_for_year_D, gdp_per_capita_D, hdi_for_year}

HdiBefore(i) == Cardinality({j \in RawPos(hdi_for_year) : j < i})

\* C9: every raw column other than suicides_no, the two GDP columns and
\* hdi_for_year is in the clean table under its normalized name with the
\* cells it had, and only the hdi_for_year columns are gone.
Thm_C9_OthersUnchanged ==
    Cleaned =>
        /\ Len(CleanT.columns) =
              Len(RawT.columns) - Cardinality(RawPos(hdi_for_year))
        /\ \A i \in 1..Len(RawT.columns) :
              NormalizeName(RawT.columns[i]) \notin Touched =>
                 /\ CleanT.columns[i - HdiBefore(i)] = NormalizeName(RawT.columns[i])
                 /\ CleanT.data[i - HdiBefore(i)] = RawT.data[i]

Wit_C9_OthersUnchanged ==
    /\ Cleaned
    /\ \E i \in 1..Len(RawT.columns) :
         /\ NormalizeName(RawT.columns[i]) \notin Touched
         /\ HdiBefore(i) = 1
         /\ \E r \in 1..NRows(RawT) : RawT.data[i][r] = Str(<<"$","1",",","2">>)
         /\ CleanT.data[i - 1] = RawT.data[i]

\* C10: whatever the order of the two numeric coercions, the currency
\* coercion and the drop, with the rename last, the outcome is the one of
\* clean_dataset: the same table, or a raise where clean_dataset raises.
Thm_C10_StepsCommute ==
    pc \in {"done", "aborted"} =>
        LET r == clean_dataset(<<file.table>>, 1) IN
        IF pc = "done"
        THEN r.err = "none" /\ heap[df_clean] = r.heap[r.df]
        ELSE r.err # "none"

Wit_C10_StepsCommute ==
    /\ pc = "done"
    /\ steps_done = Steps
    /\ NRows(heap[df_clean]) >= 1
    /\ Positions(heap[df_clean], gdp_for_year_D) # {}
    /\ Len(heap[df_clean].columns) < Len(heap[df_raw].columns)
    /\ heap[df_clean].data # KeepAt(heap[df_raw].data,
          {i \in 1..Len(heap[df_raw].columns) :
              NormalizeName(heap[df_raw].columns[i]) # hdi_for_year}, 1)

====
